---- MODULE Spec2Model ----
(***************************************************************************)
(* Model of the retrieval-augmented answering pipeline of                  *)
(* app/graph/agent_graph.py: the four LangGraph nodes input_node,          *)
(* retrieval_node, generation_node and output_node, wired                  *)
(* input -> retrieval -> generation -> output -> END.                      *)
(*                                                                         *)
(* Encoding of Python values                                               *)
(*   str            a sequence of one-character strings (questions), or a  *)
(*                  tagged tuple <<"str", name>> (metadata values)         *)
(*   None           <<>> ; a value v that may be None is carried as <<v>>   *)
(*   dict           a function from the keys that are present              *)
(*   float          an integer: scores in hundredths, confidences in       *)
(*                  1/ConfScale (exact arithmetic, rounding not modelled)  *)
(*   exception      its message, a string                                  *)
(*                                                                         *)
(* Besides the request in progress (state, pc) the variables hold          *)
(*   calls, statusTrace  the external calls made and the statuses written  *)
(*   calib               the arguments and the result of a direct call of  *)
(*                       compute_confidence_from_scores                    *)
(*   mode                "single": one request; "record": one request      *)
(*                       whose service responses are kept; "replay": the   *)
(*                       same question run again on the kept responses;    *)
(*                       "concurrent": two requests served in turns;       *)
(*                       "scored": one request, the store's answers have   *)
(*                       complete metadata and scores of any size          *)
(*   script              the responses kept, or those still to be replayed *)
(*   other               the request that is not running: the suspended    *)
(*                       one, or the finished first run during a replay    *)
(*   user_prompt         the prompt last given to the completion service   *)
(*   http                the /ask request being answered and its response  *)
(*   job                 the ingestion function being run, with its locals *)
(***************************************************************************)
EXTENDS Integers, Sequences, FiniteSets, TLC

VARIABLES state, pc, calls, statusTrace, raised, calib, mode, script, other,
          user_prompt, http, job

vars == <<state, pc, calls, statusTrace, raised, calib, mode, script, other, user_prompt, http, job>>

\* ------------------------------------------------------------------ bounds
MaxQLen == 4
MaxMatches == 2
MaxScores == 4
MaxEmbeddings == 3
MaxDocs == 2

\* ------------------------------------------------------- Python primitives
PyNone == <<>>
Some(v) == <<v>>
IsNone(o) == o = <<>>
Val(o) == o[1]

\* dict.get(key, default)
Get(d, k, default) == IF k \in DOMAIN d THEN d[k] ELSE default

\* {**d, k: v}
With(d, k, v) == [x \in (DOMAIN d) \cup {k} |-> IF x = k THEN v ELSE d[x]]

Whitespace == {" "}
QChars == {" ", "a"}

RECURSIVE LStrip(_)
LStrip(s) == IF s # <<>> /\ Head(s) \in Whitespace THEN LStrip(Tail(s)) ELSE s

RECURSIVE RStrip(_)
RStrip(s) ==
    IF s # <<>> /\ s[Len(s)] \in Whitespace THEN RStrip(SubSeq(s, 1, Len(s) - 1)) ELSE s

\* str.strip()
StripLeftOnly(s) == LStrip(s)
Strip(s) == RStrip(LStrip(s))

SeqsUpTo(S, n) == UNION {[1..k -> S] : k \in 0..n}

\* The question handed to the graph: any short string, or None (missing).
Questions == {Some(q) : q \in SeqsUpTo(QChars, MaxQLen)} \cup {PyNone}

MinQuestionLen == 3

\* ---------------------------------------------------------------- statuses
Statuses == {"started", "input_validated", "retrieval_completed", "retrieval_failed",
             "generation_completed", "generation_failed", "completed"}

\* AgentState as main() and ask_question build it
InitialState(q) ==
    [question |-> q,
     validated_question |-> PyNone,
     relevant_chunks |-> <<>>,
     generated_response |-> PyNone,
     confidence |-> PyNone,
     final_response |-> PyNone,
     status |-> "started"]

\* entry point set to the retrieval node
EntryPointRetrieval == "retrieval"

\* workflow.set_entry_point("input")
EntryPoint == "input"

Init ==
    /\ \E q \in Questions : state = InitialState(q)
    /\ pc = EntryPoint
    /\ calls = <<>>
    /\ statusTrace = <<"started">>
    /\ raised = PyNone
    /\ calib = PyNone
    /\ mode = "single"
    /\ script = <<>>
    /\ other = PyNone
    /\ user_prompt = PyNone
    /\ http = PyNone
    /\ job = PyNone

\* A node returned new_state: the graph stores it and moves along its edge.
Advance(new_state, next_pc, new_calls) ==
    /\ state' = new_state
    /\ pc' = next_pc
    /\ calls' = new_calls
    /\ statusTrace' = Append(statusTrace, new_state.status)
    /\ raised' = raised
    /\ UNCHANGED <<calib, http, job>>

\* A node raised: the exception leaves agent.invoke, the state is not updated.
Abort(msg, new_calls) ==
    /\ pc' = "raised"
    /\ raised' = Some(msg)
    /\ calls' = new_calls
    /\ UNCHANGED <<state, statusTrace, calib, http, job>>

\* A response of a service as kept for a replay
Response(service, outcome) == <<service, outcome>>

\* The step received these responses: they are kept (record, concurrent), or
\* they were taken from the script (replay); the request not running is untouched.
Record(responses) ==
    /\ script' = IF mode \in {"record", "concurrent"} THEN script \o responses
                 ELSE IF mode = "replay" THEN SubSeq(script, Len(responses) + 1, Len(script))
                 ELSE script
    /\ mode' = mode
    /\ other' = other

\* ------------------------------------------------------------ NODE 1: input
QuestionRejectedNoStrip(question) ==
    \/ IsNone(question)
    \/ Val(question) = <<>>
    \/ Len(Val(question)) < MinQuestionLen

QuestionRejected(question) ==
    \/ IsNone(question)
    \/ Val(question) = <<>>
    \/ Len(Strip(Val(question))) < MinQuestionLen

input_node ==
    /\ pc = "input"
    /\ LET question == Get(state, "question", Some(<<>>))
       IN IF QuestionRejected(question)
          THEN Abort("ValueError: Question must be at least 3 characters long", calls)
          ELSE Advance(With(With(state, "validated_question", Some(Strip(Val(question)))),
                            "status", "input_validated"),
                       "retrieval", calls)
    /\ Record(<<>>)
    /\ UNCHANGED user_prompt

\* ------------------------------------------------------ external services
\* One entry of the log of external calls: the service, how the call ended, and the
\* message of the exception it raised ("" when it raised none).
Call(service, outcome) ==
    <<service, outcome[1], IF outcome[1] = "raise" THEN outcome[2] ELSE "">>
    \o (IF service = "embedding" /\ outcome[1] = "ok" THEN <<outcome[2]>> ELSE <<>>)

\* The last call of the log was made with this vector as its argument.
Sent(log, vector) == [log EXCEPT ![Len(log)] = @ \o <<vector>>]

\* a call that raised is made once more
LoggedWithRetry(log, service, outcome) ==
    IF outcome[1] = "raise"
    THEN Append(Append(log, Call(service, outcome)), Call(service, outcome))
    ELSE Append(log, Call(service, outcome))

\* The log after one call of the service: a single attempt, whatever its outcome.
Logged(log, service, outcome) == Append(log, Call(service, outcome))

\* Outcome of openai_client.embeddings.create(...).data[0].embedding
EmbeddingVectors == {"v1", "v2"}

EmbeddingOutcomes ==
    {<<"ok", v>> : v \in EmbeddingVectors}
    \cup {<<"malformed">>, <<"raise", "ServiceError: embedding unavailable">>}

StrVal(x) == <<"str", x>>
ListVal(x) == <<"list", x>>

\* Values the ingestion job may have stored under each metadata key
TextValues == {StrVal("passage")}
SourcesValues == {StrVal("docA"), ListVal("docA,docB")}
SectionValues == {StrVal("intro")}

\* Key sets of a match's metadata: the text with any of the other two keys, or nothing
MetaKeySets == {ks \in SUBSET {"text", "sources", "section"} : ks = {} \/ "text" \in ks}

MetaDicts ==
    UNION {{m \in [ks -> TextValues \cup SourcesValues \cup SectionValues] :
              /\ ("text" \in ks => m["text"] \in TextValues)
              /\ ("sources" \in ks => m["sources"] \in SourcesValues)
              /\ ("section" \in ks => m["section"] \in SectionValues)} : ks \in MetaKeySets}

FullMeta == [text |-> StrVal("passage"), sources |-> StrVal("docA"), section |-> StrVal("intro")]

ScoreValues == {10, 65}

\* A match of the store's answer, without its id: score and metadata.
\* Well-formed matches, a match whose metadata is None, a match whose score is None.
MatchBodies ==
    {[score |-> Some(sc), metadata |-> Some(m)] : sc \in ScoreValues, m \in MetaDicts}
    \cup {[score |-> Some(65), metadata |-> PyNone]}
    \cup {[score |-> PyNone, metadata |-> Some(FullMeta)]}

Min(a, b) == IF a < b THEN a ELSE b

\* top_k of index.query
TopK == 10

\* The store gives every vector its own id.
WithIds(bodies) ==
    [i \in 1..Len(bodies) |->
        [id |-> i, score |-> bodies[i].score, metadata |-> bodies[i].metadata]]

\* Outcome of index.query(...): raises, answers without a matches list, or answers
QueryOutcomes ==
    {<<"raise", "ServiceError: vector store unavailable">>, <<"malformed">>}
    \cup {<<"ok", WithIds(b)>> : b \in SeqsUpTo(MatchBodies, Min(MaxMatches, TopK))}

\* Outcome of chat.completions.create(...): raises, answers without choices, or answers
CompletionTexts == {<<"o", "k", " ">>}

CompletionOutcomes ==
    {<<"raise", "ServiceError: completion unavailable">>, <<"malformed">>}
    \cup {<<"ok", t>> : t \in CompletionTexts}

\* -------------------------------------------------------- NODE 2: retrieval
LogTop == 5

\* Scores the store may return: negative, at the threshold, between the expected
\* minimum and maximum, above the expected maximum, above 1.
ScoredScores == {-10, 20, 50, 65, 120}

ScoredTexts == {StrVal("passage"), StrVal("other")}

ScoredBodies ==
    {[score |-> Some(sc),
      metadata |-> Some([text |-> t, sources |-> StrVal("docA"), section |-> StrVal("intro")])] :
        sc \in ScoredScores, t \in ScoredTexts}

\* Answers of index.query(...) with complete metadata and any of these scores
\* An answer longer than the debug log reads, whose last match has no score
LongBodies ==
    [i \in 1..(LogTop + 1) |->
        IF i <= LogTop THEN [score |-> Some(65), metadata |-> Some(FullMeta)]
        ELSE [score |-> PyNone, metadata |-> Some(FullMeta)]]

ScoredOutcomes ==
    {<<"ok", WithIds(b)>> : b \in SeqsUpTo(ScoredBodies, Min(MaxMatches + 1, TopK))}
    \cup {<<"ok", WithIds(LongBodies)>>}

\* Two requests served in turns get short answers from the store.
ShortOutcome(service, outcome) ==
    service # "query" \/ outcome[1] # "ok" \/ Len(outcome[2]) <= 1

\* A request that runs alone always receives the same vector for its question.
OneVector(service, outcome) ==
    service # "embedding" \/ outcome[1] # "ok" \/ outcome[2] = "v1"

\* The outcomes the k-th call of a node may have: any outcome of the service, or,
\* in a replay, the response the first run received from it.
Choices(service, k, outcomes) ==
    IF mode = "replay" /\ Len(script) >= k /\ script[k][1] = service
    THEN {script[k][2]}
    ELSE IF mode = "concurrent"
    THEN {o \in outcomes : ShortOutcome(service, o)}
    ELSE IF mode = "scored" /\ service = "query"
    THEN ScoredOutcomes
    ELSE {o \in outcomes : OneVector(service, o)}

\* missing source and section default to the empty string
chunk_dataEmptyDefault(match) ==
    [text |-> Get(Val(match.metadata), "text", StrVal("")),
     source |-> Get(Val(match.metadata), "sources", StrVal("")),
     section |-> Get(Val(match.metadata), "section", StrVal("")),
     score |-> match.score,
     chunk_id |-> match.id]

chunk_data(match) ==
    [text |-> Get(Val(match.metadata), "text", StrVal("")),
     source |-> Get(Val(match.metadata), "sources", StrVal("unknown")),
     section |-> Get(Val(match.metadata), "section", StrVal("unknown")),
     score |-> match.score,
     chunk_id |-> match.id]

\* the chunks are collected last match first
MapMatchesReversed(matches) ==
    IF \E i \in 1..Len(matches) : IsNone(matches[i].metadata)
    THEN <<"raise", "AttributeError: 'NoneType' object has no attribute 'get'">>
    ELSE IF \E i \in 1..Min(Len(matches), LogTop) : IsNone(matches[i].score)
    THEN <<"raise", "TypeError: unsupported format string passed to NoneType.__format__">>
    ELSE <<"ok", [i \in 1..Len(matches) |-> chunk_data(matches[Len(matches) + 1 - i])]>>

\* The for-loop over search_results.matches and the debug log after it:
\* <<"ok", relevant_chunks>> or <<"raise", message>>
MapMatches(matches) ==
    IF \E i \in 1..Len(matches) : IsNone(matches[i].metadata)
    THEN <<"raise", "AttributeError: 'NoneType' object has no attribute 'get'">>
    ELSE IF \E i \in 1..Min(Len(matches), LogTop) : IsNone(matches[i].score)
    THEN <<"raise", "TypeError: unsupported format string passed to NoneType.__format__">>
    ELSE <<"ok", [i \in 1..Len(matches) |-> chunk_data(matches[i])]>>

\* leaves status alone
RetrievalFailedKeepsStatus(st, msg) ==
    With(With(st, "relevant_chunks", <<>>), "error", msg)

\* records a fixed text instead of str(e)
RetrievalFailedFixedError(st, msg) ==
    With(With(With(st, "relevant_chunks", <<>>), "status", "retrieval_failed"),
         "error", "retrieval error")

RetrievalFailed(st, msg) ==
    With(With(With(st, "relevant_chunks", <<>>), "status", "retrieval_failed"), "error", msg)

\* also writes an empty error
RetrievalCompletedWithError(st, chunks) ==
    With(With(With(st, "relevant_chunks", chunks), "status", "retrieval_completed"), "error", "")

RetrievalCompleted(st, chunks) ==
    With(With(st, "relevant_chunks", chunks), "status", "retrieval_completed")

\* queries with one vector whatever the embedding call returned
QuestionEmbeddingFixed(e) == "v1"

\* question_embedding = embedding_response.data[0].embedding
QuestionEmbedding(e) == e[2]

retrieval_node ==
    /\ pc = "retrieval"
    /\ UNCHANGED user_prompt
    /\ \E e \in Choices("embedding", 1, EmbeddingOutcomes) :
         LET calls1 == Logged(calls, "embedding", e)
             got1 == <<Response("embedding", e)>>
         IN
         IF e[1] = "raise"
         THEN Advance(RetrievalFailed(state, e[2]), "generation", calls1) /\ Record(got1)
         ELSE IF e[1] = "malformed"
         THEN /\ Advance(RetrievalFailed(state, "IndexError: list index out of range"),
                         "generation", calls1)
              /\ Record(got1)
         ELSE \E q \in Choices("query", 2, QueryOutcomes) :
                LET calls2 == Sent(Logged(calls1, "query", q), QuestionEmbedding(e))
                    got2 == <<Response("embedding", e), Response("query", q)>>
                IN
                /\ Record(got2)
                /\ IF q[1] = "raise"
                   THEN Advance(RetrievalFailed(state, q[2]), "generation", calls2)
                   ELSE IF q[1] = "malformed"
                   THEN Advance(RetrievalFailed(state, "TypeError: 'NoneType' object is not iterable"),
                                "generation", calls2)
                   ELSE LET mapped == MapMatches(q[2]) IN
                        IF mapped[1] = "raise"
                        THEN Advance(RetrievalFailed(state, mapped[2]), "generation", calls2)
                        ELSE Advance(RetrievalCompleted(state, mapped[2]), "generation", calls2)

\* ------------------------------------------------- confidence calibration
\* Confidences are integers in units of 1/ConfScale; scores are in hundredths.
ConfScale == 50 * 90

\* equal weights
WeightsEqual == <<3, 3, 3>>

\* weights 0.6, 0.3, 0.1 in tenths
Weights == <<6, 3, 1>>

RECURSIVE InsertDescBeforeEqual(_, _)
\* insert pair x before the pairs whose key equals its own
InsertDescBeforeEqual(x, sorted) ==
    IF sorted = <<>> THEN <<x>>
    ELSE IF Head(sorted).key > x.key
         THEN <<Head(sorted)>> \o InsertDescBeforeEqual(x, Tail(sorted))
         ELSE <<x>> \o sorted

RECURSIVE InsertDesc(_, _)
\* insert pair x after every pair whose key is >= its own (stable, descending)
InsertDesc(x, sorted) ==
    IF sorted = <<>> THEN <<x>>
    ELSE IF Head(sorted).key >= x.key
         THEN <<Head(sorted)>> \o InsertDesc(x, Tail(sorted))
         ELSE <<x>> \o sorted

RECURSIVE SortPairsDesc(_)
SortPairsDesc(ps) ==
    IF ps = <<>> THEN <<>>
    ELSE InsertDesc(ps[Len(ps)], SortPairsDesc(SubSeq(ps, 1, Len(ps) - 1)))

\* leaves the order as it is
SortedDescNoSort(xs, keys) == xs

\* sorted(xs, key=lambda x: keys[position of x], reverse=True)
SortedDesc(xs, keys) ==
    LET ps == SortPairsDesc([i \in 1..Len(xs) |-> [key |-> keys[i], val |-> xs[i]]])
    IN [i \in 1..Len(ps) |-> ps[i].val]

RECURSIVE SumSeq(_)
SumSeq(xs) == IF xs = <<>> THEN 0 ELSE Head(xs) + SumSeq(Tail(xs))

\* no clamping
ClampNone(lo, hi, x) == x

\* max(lo, x): the upper limit is not applied
ClampBelowOnly(lo, hi, x) == IF x < lo THEN lo ELSE x

\* max(lo, min(hi, x))
Clamp(lo, hi, x) == IF x < lo THEN lo ELSE IF x > hi THEN hi ELSE x

\* keeps every score
FilteredScoresAll(similarity_scores, score_threshold) == similarity_scores

\* keeps the scores below the threshold
FilteredScoresInverted(similarity_scores, score_threshold) ==
    SelectSeq(similarity_scores, LAMBDA sc : sc < score_threshold)

\* [s for s in similarity_scores if s >= score_threshold]
FilteredScores(similarity_scores, score_threshold) ==
    SelectSeq(similarity_scores, LAMBDA sc : sc >= score_threshold)

\* divides by the sum of all three weights
WeightSumFull(weights) == SumSeq(Weights)

\* sum(weights)
WeightSum(weights) == SumSeq(weights)

\* the three smallest of the sorted scores
TopScoresLast(sorted_scores) ==
    SubSeq(sorted_scores, Len(sorted_scores) - Min(3, Len(sorted_scores)) + 1, Len(sorted_scores))

\* sorted(filtered_scores, reverse=True)[:3]
TopScores(sorted_scores) == SubSeq(sorted_scores, 1, Min(3, Len(sorted_scores)))

compute_confidence_from_scores(similarity_scores, expected_min_similarity, expected_max_similarity, score_threshold) ==
    LET filtered_scores == FilteredScores(similarity_scores, score_threshold)
        sorted_scores == SortedDesc(filtered_scores, filtered_scores)
        top_scores == TopScores(sorted_scores)
        weights == SubSeq(Weights, 1, Len(top_scores))
        num == SumSeq([i \in 1..Len(top_scores) |-> weights[i] * top_scores[i]])
        den == WeightSum(weights)
        span == expected_max_similarity - expected_min_similarity
    IN IF similarity_scores = <<>> \/ filtered_scores = <<>> THEN 0
       ELSE Clamp(0, ConfScale,
                  ((num - expected_min_similarity * den) * ConfScale) \div (span * den))

ExpectedMinSimilarity == 20
ExpectedMaxSimilarity == 70
ScoreThreshold == 20

\* ------------------------------------- the calibrator called on its own
\* Scores a caller may pass: negative, below, at and above the threshold, above 1.
CalibScores == {-10, 10, 20, 30, 50, 65, 90, 120}

\* score_threshold: the default and a stricter one
CalibThresholds == {ScoreThreshold, 50}

InitCalib ==
    /\ state = InitialState(PyNone)
    /\ pc = "idle"
    /\ calls = <<>>
    /\ statusTrace = <<"started">>
    /\ raised = PyNone
    /\ \E sc \in SeqsUpTo(CalibScores, MaxScores), t \in CalibThresholds :
         calib = [similarity_scores |-> sc, score_threshold |-> t, result |-> PyNone]
    /\ mode = "single"
    /\ script = <<>>
    /\ other = PyNone
    /\ user_prompt = PyNone
    /\ http = PyNone
    /\ job = PyNone

Calibrate ==
    /\ pc = "idle"
    /\ IsNone(calib.result)
    /\ calib' = [calib EXCEPT !.result =
                    Some(compute_confidence_from_scores(calib.similarity_scores,
                                                        ExpectedMinSimilarity,
                                                        ExpectedMaxSimilarity,
                                                        calib.score_threshold))]
    /\ UNCHANGED <<state, pc, calls, statusTrace, raised, mode, script, other>>
    /\ UNCHANGED <<user_prompt, http, job>>

NextCalib == Calibrate

SpecCalib == InitCalib /\ [][NextCalib]_vars

\* ------------------------------------------------------- NODE 3: generation
GenericResponse(question) == <<"No encontre informacion especifica sobre", question>>
FallbackResponse(question) == <<"Lo siento, tuve un problema generando la respuesta para", question>>
LlmResponse(text) == <<"llm", text>>

ChunkScore(c) == Val(Get(c, "score", Some(0)))

context_sections(sorted_chunks) ==
    [i \in 1..Len(sorted_chunks) |->
        [idx |-> i,
         relevance |-> ChunkScore(sorted_chunks[i]),
         text |-> Get(sorted_chunks[i], "text", StrVal(""))]]

\* user_prompt: the question and the context sections joined
UserPrompt(question, sections) == [question |-> question, context |-> sections]

\* forgets "confidence": 0.0
GenerationCompletedNoConfidence(st, response, conf) ==
    With(With(st, "generated_response", Some(response)), "status", "generation_completed")

\* keeps whatever confidence the state holds
GenerationFailedKeepsConfidence(st, question, msg) ==
    With(With(With(st, "generated_response", Some(FallbackResponse(question))),
              "status", "generation_failed"),
         "error", msg)

GenerationFailed(st, question, msg) ==
    With(With(With(With(st, "generated_response", Some(FallbackResponse(question))),
                   "confidence", Some(0)),
              "status", "generation_failed"),
         "error", msg)

\* writes the re-sorted chunks back into relevant_chunks
GenerationCompletedStoresSorted(st, response, conf) ==
    With(With(With(With(st, "generated_response", Some(response)),
                   "status", "generation_completed"),
              "confidence", Some(conf)),
         "relevant_chunks",
         SortedDesc(st.relevant_chunks,
                    [i \in 1..Len(st.relevant_chunks) |-> Get(st.relevant_chunks[i], "score", Some(0))[1]]))

GenerationCompleted(st, response, conf) ==
    With(With(With(st, "generated_response", Some(response)),
              "status", "generation_completed"),
         "confidence", Some(conf))

\* sorted(...) on scores with a None among them: the comparison that fails
\* depends on where the None stands
SortErrors ==
    {"TypeError: '<' not supported between instances of 'float' and 'NoneType'",
     "TypeError: '<' not supported between instances of 'NoneType' and 'float'",
     "TypeError: '<' not supported between instances of 'NoneType' and 'NoneType'"}

\* takes the short cut whatever was retrieved
NoChunksAlways(chunks) == TRUE

\* if not chunks
NoChunksNever(chunks) == FALSE

NoChunks(chunks) == chunks = <<>>

generation_node ==
    /\ pc = "generation"
    /\ LET question == Get(state, "validated_question", Some(<<>>))
           chunks == Get(state, "relevant_chunks", <<>>)
       IN IF NoChunks(chunks)
          THEN /\ Advance(GenerationCompleted(state, GenericResponse(question), 0), "output", calls)
               /\ Record(<<>>)
               /\ UNCHANGED user_prompt
          ELSE IF \E i \in 1..Len(chunks) : IsNone(Get(chunks[i], "score", Some(0)))
          THEN /\ \E msg \in SortErrors :
                    Advance(GenerationFailed(state, question, msg), "output", calls)
               /\ Record(<<>>)
               /\ UNCHANGED user_prompt
          ELSE LET sorted_chunks == SortedDesc(chunks, [i \in 1..Len(chunks) |-> ChunkScore(chunks[i])])
                   similarity_scores == [i \in 1..Len(sorted_chunks) |-> ChunkScore(sorted_chunks[i])]
                   calibrated_confidence ==
                       compute_confidence_from_scores(similarity_scores, ExpectedMinSimilarity,
                                                      ExpectedMaxSimilarity, ScoreThreshold)
               IN \E r \in Choices("completion", 1, CompletionOutcomes) :
                    LET calls1 == Logged(calls, "completion", r) IN
                    /\ Record(<<Response("completion", r)>>)
                    /\ user_prompt' = Some(UserPrompt(question, context_sections(sorted_chunks)))
                    /\ IF r[1] = "raise"
                       THEN Advance(GenerationFailed(state, question, r[2]), "output", calls1)
                       ELSE IF r[1] = "malformed"
                       THEN Advance(GenerationFailed(state, question, "IndexError: list index out of range"),
                                    "output", calls1)
                       ELSE Advance(GenerationCompleted(state, LlmResponse(Strip(r[2])),
                                                        calibrated_confidence),
                                    "output", calls1)

\* ----------------------------------------------------------- NODE 4: output
Hashable(v) == v[1] # "list"

Range(f) == {f[i] : i \in DOMAIN f}

RawSources(chunks) == [i \in 1..Len(chunks) |-> Get(chunks[i], "source", StrVal("unknown"))]

\* list(set(xs)): each value once, in an order the hash table decides
ListOfSet(xs) == {l \in SeqsUpTo(Range(xs), Cardinality(Range(xs))) :
                     /\ Len(l) = Cardinality(Range(xs))
                     /\ Range(l) = Range(xs)}

\* list(set(xs))[:1]: only the value the hash table lists first
UniqueSourcesFirstOnly(chunks) ==
    {SubSeq(l, 1, Min(1, Len(l))) : l \in ListOfSet(RawSources(chunks))}

UniqueSourcesNoSet(chunks) == {RawSources(chunks)}

UniqueSources(chunks) == ListOfSet(RawSources(chunks))

\* reports confidence 0.0 whatever the state holds
FormattedResponseZeroConfidence(response, unique_sources, confidence) ==
    [answer |-> response, sources |-> unique_sources, confidence |-> Some(0)]

\* formatted_response
FormattedResponse(response, unique_sources, confidence) ==
    [answer |-> response, sources |-> unique_sources, confidence |-> confidence]

output_node ==
    /\ pc = "output"
    /\ LET response == Get(state, "generated_response", Some(<<>>))
           chunks == Get(state, "relevant_chunks", <<>>)
           confidence == Get(state, "confidence", Some(0))
       IN IF \E i \in 1..Len(chunks) : ~Hashable(RawSources(chunks)[i])
          THEN Abort("TypeError: unhashable type: 'list'", calls)
          ELSE \E unique_sources \in UniqueSources(chunks) :
                 Advance(With(With(state, "final_response",
                                   Some(FormattedResponse(response, unique_sources,
                                                          confidence))),
                              "status", "completed"),
                         "END", calls)
    /\ Record(<<>>)
    /\ UNCHANGED user_prompt

\* --------------------------------------------------------------- the graph
Next == input_node \/ retrieval_node \/ generation_node \/ output_node

Spec == Init /\ [][Next]_vars

\* ------------------------------------------- a second run, a second request
\* Everything that belongs to the request that is running
Context ==
    [state |-> state, pc |-> pc, calls |-> calls, statusTrace |-> statusTrace,
     raised |-> raised, script |-> script, user_prompt |-> user_prompt]

\* A request as ask_question hands it to agent.invoke
FreshContext(q) ==
    [state |-> InitialState(q), pc |-> EntryPoint, calls |-> <<>>,
     statusTrace |-> <<"started">>, raised |-> PyNone, script |-> <<>>,
     user_prompt |-> PyNone]

ReplayQuestions == {q \in Questions : IsNone(q) \/ Len(Val(q)) <= MinQuestionLen + 1}

ConcQuestions == {q \in Questions : IsNone(q) \/ Len(Val(q)) <= MinQuestionLen}

\* One request whose service responses are kept
InitReplay ==
    /\ \E q \in ReplayQuestions : state = InitialState(q)
    /\ pc = EntryPoint
    /\ calls = <<>>
    /\ statusTrace = <<"started">>
    /\ raised = PyNone
    /\ calib = PyNone
    /\ mode = "record"
    /\ script = <<>>
    /\ other = PyNone
    /\ user_prompt = PyNone
    /\ http = PyNone
    /\ job = PyNone

\* The finished request is put aside and its question is run again, alone, on
\* the responses the finished run received.
StartReplay ==
    /\ mode \in {"record", "concurrent"}
    /\ pc \in {"END", "raised"}
    /\ other' = Some(Context)
    /\ mode' = "replay"
    /\ state' = InitialState(state.question)
    /\ pc' = EntryPoint
    /\ calls' = <<>>
    /\ statusTrace' = <<"started">>
    /\ raised' = PyNone
    /\ user_prompt' = PyNone
    /\ UNCHANGED <<script, calib, http, job>>

NextReplay == Next \/ StartReplay

SpecReplay == InitReplay /\ [][NextReplay]_vars

\* the resumed request finds the chunks of the request that ran last
ResumedSharedChunks(ctx, running) ==
    [ctx EXCEPT !.state = With(ctx.state, "relevant_chunks", running.state.relevant_chunks)]

\* What a suspended request finds when it runs again: its own agent_input and
\* the state its own nodes returned.
Resumed(ctx, running) == ctx

\* Two requests, each with its own state
InitConc ==
    /\ \E q1, q2 \in ConcQuestions :
         /\ state = InitialState(q1)
         /\ other = Some(FreshContext(q2))
    /\ pc = EntryPoint
    /\ calls = <<>>
    /\ statusTrace = <<"started">>
    /\ raised = PyNone
    /\ calib = PyNone
    /\ mode = "concurrent"
    /\ script = <<>>
    /\ user_prompt = PyNone
    /\ http = PyNone
    /\ job = PyNone

\* The hosting layer lets the other request run its next stage.
Switch ==
    /\ mode = "concurrent"
    /\ ~IsNone(other)
    /\ LET ctx == Resumed(Val(other), Context) IN
         /\ state' = ctx.state
         /\ pc' = ctx.pc
         /\ calls' = ctx.calls
         /\ statusTrace' = ctx.statusTrace
         /\ raised' = ctx.raised
         /\ script' = ctx.script
         /\ user_prompt' = ctx.user_prompt
    /\ other' = Some(Context)
    /\ UNCHANGED <<mode, calib, http, job>>

NextConc == Next \/ Switch \/ StartReplay

SpecConc == InitConc /\ [][NextConc]_vars

\* ------------------------------------------------ one request, any scores
InitScored ==
    /\ \E q \in ConcQuestions : state = InitialState(q)
    /\ pc = EntryPoint
    /\ calls = <<>>
    /\ statusTrace = <<"started">>
    /\ raised = PyNone
    /\ calib = PyNone
    /\ mode = "scored"
    /\ script = <<>>
    /\ other = PyNone
    /\ user_prompt = PyNone
    /\ http = PyNone
    /\ job = PyNone

SpecScored == InitScored /\ [][Next]_vars

\* ------------------------------------------------------- the /ask endpoint
\* request.question: the request model makes it a string
ApiQuestions == {Val(q) : q \in ReplayQuestions \ {PyNone}}

HTTPException(status_code, detail) == <<"HTTPException", status_code, detail>>

RAGResponse(payload) == <<"RAGResponse", payload>>

\* refuses only the empty string
QuestionRefusedEmptyOnly(question) == question = <<>>

\* not request.question or len(request.question.strip()) < 3
QuestionRefused(question) ==
    \/ question = <<>>
    \/ Len(Strip(question)) < MinQuestionLen

InitApi ==
    /\ \E q \in ApiQuestions : http = [question |-> q, response |-> PyNone]
    /\ state = <<>>
    /\ pc = "request"
    /\ calls = <<>>
    /\ statusTrace = <<>>
    /\ raised = PyNone
    /\ calib = PyNone
    /\ mode = "single"
    /\ script = <<>>
    /\ other = PyNone
    /\ user_prompt = PyNone
    /\ job = PyNone

\* ask_question up to agent.invoke(agent_input)
ask_question ==
    /\ pc = "request"
    /\ IF QuestionRefused(http.question)
       THEN /\ http' = [http EXCEPT !.response =
                           Some(HTTPException(400, "Question must be at least 3 characters long"))]
            /\ pc' = "responded"
            /\ UNCHANGED <<state, statusTrace>>
       ELSE /\ state' = InitialState(Some(Strip(http.question)))
            /\ statusTrace' = <<"started">>
            /\ pc' = EntryPoint
            /\ http' = http
    /\ UNCHANGED <<calls, raised, calib, mode, script, other, user_prompt, job>>

\* ask_question from the return of agent.invoke: the result or the exception
ask_question_return ==
    /\ ~IsNone(http)
    /\ pc \in {"END", "raised"}
    /\ LET final_response == Get(state, "final_response", PyNone)
           answered ==
               IF pc = "raised"
               THEN HTTPException(500, <<"Internal server error: ", Val(raised)>>)
               ELSE IF IsNone(final_response)
               THEN HTTPException(500, "Agent failed to generate response")
               ELSE IF IsNone(Val(final_response).confidence)
               THEN HTTPException(500, <<"Internal server error: ", "ValidationError: RAGResponse confidence">>)
               ELSE RAGResponse(Val(final_response))
       IN http' = [http EXCEPT !.response = Some(answered)]
    /\ pc' = "responded"
    /\ UNCHANGED <<state, calls, statusTrace, raised, calib, mode, script, other, user_prompt, job>>

NextApi == ask_question \/ Next \/ ask_question_return

SpecApi == InitApi /\ [][NextApi]_vars

\* ------------------------------------------------------- the ingestion job
\* One entry of embeddings_processed.json: complete, or without its id
UploadItems ==
    {[id |-> "intro-0", values |-> "vector", metadata |-> "meta"],
     [id |-> "intro-1", values |-> "vector", metadata |-> "meta"],
     [values |-> "vector", metadata |-> "meta"]}

BatchSizes == {1, 2}

\* a record of the list the vectors dict is built from has 'id', 'values', 'metadata'
BatchWellFormed(batch) ==
    \A k \in 1..Len(batch) : {"id", "values", "metadata"} \subseteq DOMAIN batch[k]

\* A JSON file of the data folder: not parseable, without a text, without a
\* section, or complete; a text is given as the pieces the splitter cuts it into.
DocTexts == {<<>>, <<"piece a">>, <<"piece a", "piece b">>}

DocSections == {"intro", "faq"}

Documents ==
    {<<"unreadable">>}
    \cup {<<"json", [title |-> "t"]>>}
    \cup {<<"json", [text |-> t, sources |-> "docA"]>> : t \in DocTexts}
    \cup {<<"json", [text |-> t, sources |-> "docA", section |-> sec]>> :
             t \in DocTexts, sec \in DocSections}

\* f"{section}-{i}"
ChunkId(section, i) == section \o "-" \o ToString(i)

\* the chunk dictionaries made from one file's text chunks
FileChunks(data) ==
    [k \in 1..Len(data.text) |->
        [text |-> data.text[k],
         sources |-> data.sources,
         chunk_id |-> ChunkId(data.section, k - 1),
         section |-> data.section]]

InitIngest ==
    /\ \/ \E e \in SeqsUpTo(UploadItems, MaxEmbeddings), b \in BatchSizes :
            /\ job = [fn |-> "upload_to_pinecone", embeddings |-> e, batch_size |-> b,
                      i |-> 0, total_uploaded |-> 0, index |-> PyNone, result |-> PyNone]
            /\ pc = "upload_connect"
       \/ \E f \in SeqsUpTo(Documents, MaxDocs) :
            /\ job = [fn |-> "process_json_documents", files |-> f, next |-> 1,
                      chunks |-> <<>>, result |-> PyNone]
            /\ pc = "process_loop"
    /\ state = <<>>
    /\ calls = <<>>
    /\ statusTrace = <<>>
    /\ raised = PyNone
    /\ calib = PyNone
    /\ mode = "single"
    /\ script = <<>>
    /\ other = PyNone
    /\ user_prompt = PyNone
    /\ http = PyNone

IngestUnchanged ==
    UNCHANGED <<state, calls, statusTrace, raised, calib, mode, script, other, user_prompt, http>>

\* upload_to_pinecone: Pinecone(...) and Index(...); a failure returns False
upload_connect ==
    /\ pc = "upload_connect"
    /\ \E connected \in BOOLEAN :
         IF connected
         THEN /\ job' = [job EXCEPT !.index = Some(<<>>)]
              /\ pc' = "upload_loop"
         ELSE /\ job' = [job EXCEPT !.result = Some(FALSE)]
              /\ pc' = "returned"
    /\ IngestUnchanged

\* upload_to_pinecone: one pass of the loop over the batches
upload_batch ==
    /\ pc = "upload_loop"
    /\ job.i < Len(job.embeddings)
    /\ LET batch == SubSeq(job.embeddings, job.i + 1,
                           Min(job.i + job.batch_size, Len(job.embeddings)))
       IN \E upserted \in BOOLEAN :
            job' = IF BatchWellFormed(batch) /\ upserted
                   THEN [job EXCEPT !.i = job.i + job.batch_size,
                                    !.total_uploaded = job.total_uploaded + Len(batch),
                                    !.index = Some(Val(job.index) \o batch)]
                   ELSE [job EXCEPT !.i = job.i + job.batch_size]
    /\ pc' = pc
    /\ IngestUnchanged

\* upload_to_pinecone: the loop is over
upload_return ==
    /\ pc = "upload_loop"
    /\ job.i >= Len(job.embeddings)
    /\ job' = [job EXCEPT !.result = Some(TRUE)]
    /\ pc' = "returned"
    /\ IngestUnchanged

\* process_json_documents: one pass of the loop over the files
process_file ==
    /\ pc = "process_loop"
    /\ job.next <= Len(job.files)
    /\ LET json_file == job.files[job.next]
           added == IF json_file[1] = "unreadable" THEN <<>>
                    ELSE IF "text" \notin DOMAIN json_file[2] THEN <<>>
                    ELSE IF {"sources", "section"} \subseteq DOMAIN json_file[2]
                    THEN FileChunks(json_file[2])
                    ELSE <<>>
       IN job' = [job EXCEPT !.next = job.next + 1, !.chunks = job.chunks \o added]
    /\ pc' = pc
    /\ IngestUnchanged

\* process_json_documents: return chunks
process_return ==
    /\ pc = "process_loop"
    /\ job.next > Len(job.files)
    /\ job' = [job EXCEPT !.result = Some(job.chunks)]
    /\ pc' = "returned"
    /\ IngestUnchanged

NextIngest ==
    upload_connect \/ upload_batch \/ upload_return \/ process_file \/ process_return

SpecIngest == InitIngest /\ [][NextIngest]_vars

\* ------------------------------------------------- run_complete_pipeline
\* batch_size of upload_to_pinecone when the caller gives none
DefaultBatchSize == 100

\* never stops
NothingProducedNever(items) == FALSE

\* if not chunks / if not chunks_with_embeddings
NothingProduced(items) == items = <<>>

\* the job is a step of run_complete_pipeline
InPipeline == ~IsNone(job) /\ "steps" \in DOMAIN job

InitPipeline ==
    /\ \E f \in SeqsUpTo(Documents, MaxDocs) :
         job = [fn |-> "run_complete_pipeline", steps |-> <<>>, returned |-> PyNone,
                files |-> f, next |-> 1, chunks |-> <<>>,
                k |-> 1, chunks_with_embeddings |-> <<>>,
                embeddings |-> <<>>, batch_size |-> DefaultBatchSize, i |-> 0,
                total_uploaded |-> 0, index |-> PyNone, result |-> PyNone]
    /\ pc = "pipeline_start"
    /\ state = <<>>
    /\ calls = <<>>
    /\ statusTrace = <<>>
    /\ raised = PyNone
    /\ calib = PyNone
    /\ mode = "single"
    /\ script = <<>>
    /\ other = PyNone
    /\ user_prompt = PyNone
    /\ http = PyNone

\* STEP 1: process_json_documents is called
pipeline_chunking ==
    /\ pc = "pipeline_start"
    /\ job' = [job EXCEPT !.fn = "process_json_documents", !.steps = <<"chunking">>]
    /\ pc' = "process_loop"
    /\ IngestUnchanged

\* STEP 2: no chunks stops the pipeline, else generate_embeddings_for_chunks is called
pipeline_embedding ==
    /\ InPipeline
    /\ pc = "returned"
    /\ job.fn = "process_json_documents"
    /\ IF NothingProduced(Val(job.result))
       THEN /\ job' = [job EXCEPT !.returned = Some(FALSE)]
            /\ pc' = "pipeline_returned"
       ELSE /\ job' = [job EXCEPT !.fn = "generate_embeddings_for_chunks",
                                  !.steps = Append(job.steps, "embedding"),
                                  !.chunks = Val(job.result),
                                  !.result = PyNone]
            /\ pc' = "embed_loop"
    /\ IngestUnchanged

\* chunk_data of generate_embeddings_for_chunks
EmbeddedChunk(chunk) ==
    [id |-> chunk.chunk_id,
     values |-> "vector",
     metadata |-> [text |-> chunk.text, sources |-> chunk.sources, section |-> chunk.section]]

\* generate_embeddings_for_chunks: one pass of the loop over the chunks
embed_chunk ==
    /\ pc = "embed_loop"
    /\ job.k <= Len(job.chunks)
    /\ \E embedded \in BOOLEAN :
         job' = IF embedded
                THEN [job EXCEPT !.k = job.k + 1,
                                 !.chunks_with_embeddings =
                                     Append(job.chunks_with_embeddings,
                                            EmbeddedChunk(job.chunks[job.k]))]
                ELSE [job EXCEPT !.k = job.k + 1]
    /\ pc' = pc
    /\ IngestUnchanged

\* generate_embeddings_for_chunks: return chunks_with_embeddings
embed_return ==
    /\ pc = "embed_loop"
    /\ job.k > Len(job.chunks)
    /\ job' = [job EXCEPT !.result = Some(job.chunks_with_embeddings)]
    /\ pc' = "returned"
    /\ IngestUnchanged

\* STEP 3: no embeddings stops the pipeline, else upload_to_pinecone is called
pipeline_upload ==
    /\ InPipeline
    /\ pc = "returned"
    /\ job.fn = "generate_embeddings_for_chunks"
    /\ IF NothingProduced(Val(job.result))
       THEN /\ job' = [job EXCEPT !.returned = Some(FALSE)]
            /\ pc' = "pipeline_returned"
       ELSE /\ job' = [job EXCEPT !.fn = "upload_to_pinecone",
                                  !.steps = Append(job.steps, "upload"),
                                  !.embeddings = Val(job.result),
                                  !.result = PyNone]
            /\ pc' = "upload_connect"
    /\ IngestUnchanged

\* if not upload_success: return False; else the summary and return True
pipeline_return ==
    /\ InPipeline
    /\ pc = "returned"
    /\ job.fn = "upload_to_pinecone"
    /\ job' = [job EXCEPT !.returned = Some(Val(job.result))]
    /\ pc' = "pipeline_returned"
    /\ IngestUnchanged

NextPipeline ==
    \/ NextIngest
    \/ pipeline_chunking \/ pipeline_embedding \/ embed_chunk \/ embed_return
    \/ pipeline_upload \/ pipeline_return

SpecPipeline == InitPipeline /\ [][NextPipeline]_vars

\* ================================================================= properties
\* The trimmed text of a string, stated by positions: what lies between its first
\* and its last non-whitespace character.
NonWsPositions(s) == {i \in 1..Len(s) : s[i] \notin Whitespace}

TrimmedText(s) ==
    IF NonWsPositions(s) = {} THEN <<>>
    ELSE LET first == CHOOSE i \in NonWsPositions(s) : \A j \in NonWsPositions(s) : i <= j
             last == CHOOSE i \in NonWsPositions(s) : \A j \in NonWsPositions(s) : i >= j
         IN SubSeq(s, first, last)

\* the question is empty, missing, or shorter than 3 characters once trimmed
InvalidQuestion(q) == IsNone(q) \/ Len(TrimmedText(Val(q))) < 3

Finished == pc \in {"END", "raised"}

HasCall(service) == \E i \in 1..Len(calls) : calls[i][1] = service

LastCall == calls[Len(calls)]

NoDuplicates(xs) == \A i, j \in 1..Len(xs) : i # j => xs[i] # xs[j]

ValidationMessage == "ValueError: Question must be at least 3 characters long"

C2_AlwaysCompletes ==
    (Finished /\ ~InvalidQuestion(state.question)) =>
        /\ pc = "END"
        /\ state.status = "completed"
        /\ ~IsNone(state.final_response)
        /\ IsNone(raised)

\* C3: for every question that is empty, missing or shorter than 3 characters
\* once trimmed, the Input stage fails with the validation error:
\* validated_question is never set, status stays started, no later stage runs
\* and no external call is made.
C3_InvalidQuestionRejected ==
    InvalidQuestion(state.question) =>
        /\ pc \in {"input", "raised"}
        /\ pc = "raised" => raised = Some(ValidationMessage)
        /\ IsNone(state.validated_question)
        /\ state.status = "started"
        /\ statusTrace = <<"started">>
        /\ calls = <<>>

\* a rejected question that is long enough before trimming
C3_Witness ==
    /\ pc = "raised"
    /\ ~IsNone(state.question)
    /\ Len(Val(state.question)) >= 3
    /\ InvalidQuestion(state.question)

\* C4: for every question of trimmed length >= 3 the Input stage succeeds and
\* sets validated_question to exactly the trimmed question and status to
\* input_validated; validated_question is always absent or a string of length
\* >= 3 without leading or trailing whitespace; no later stage changes it.
C4_ValidatedState ==
    /\ (~InvalidQuestion(state.question) /\ pc # "input") =>
          /\ state.validated_question = Some(TrimmedText(Val(state.question)))
          /\ statusTrace[2] = "input_validated"
          /\ raised # Some(ValidationMessage)
    /\ ~IsNone(state.validated_question) =>
          LET v == Val(state.validated_question)
          IN /\ Len(v) >= 3
             /\ v[1] \notin Whitespace
             /\ v[Len(v)] \notin Whitespace

C4_ValidatedQuestion ==
    /\ []C4_ValidatedState
    /\ [][~IsNone(state.validated_question) => state'.validated_question = state.validated_question]_vars

\* a finished run whose question had whitespace to trim
C4_Witness ==
    /\ pc = "END"
    /\ ~IsNone(state.validated_question)
    /\ state.validated_question # state.question

\* C5: if the embedding call or the vector-store query raises, the Retrieval
\* stage does not propagate it: it returns relevant_chunks = [], status
\* retrieval_failed and error = the exception's message, and the Generation
\* stage runs on that state.
RetrievalRaised ==
    \E i \in 1..Len(calls) : calls[i][1] \in {"embedding", "query"} /\ calls[i][2] = "raise"

RetrievalRaisedIndex ==
    (CHOOSE i \in 1..Len(calls) : calls[i][1] \in {"embedding", "query"} /\ calls[i][2] = "raise")

C5_RetrievalFailureAbsorbed ==
    RetrievalRaised =>
        /\ pc \in {"generation", "output", "END"}
        /\ statusTrace[3] = "retrieval_failed"
        /\ pc = "generation" =>
              /\ state.relevant_chunks = <<>>
              /\ state.status = "retrieval_failed"
              /\ "error" \in DOMAIN state
              /\ state["error"] = calls[RetrievalRaisedIndex][3]
              /\ ENABLED generation_node
        /\ pc \in {"output", "END"} => Len(statusTrace) >= 4

C5_Witness ==
    /\ pc = "output"
    /\ Len(calls) = 2
    /\ SubSeq(calls[2], 1, 3) = <<"query", "raise", "ServiceError: vector store unavailable">>

\* C6: when retrieval fails for a valid question the run ends with a payload
\* whose confidence is 0.0, whose answer is the 'no information found' text and
\* whose sources are empty, and the completion service is not called.
C6_RetrievalFailureEndToEnd ==
    (Len(statusTrace) >= 3 /\ statusTrace[3] = "retrieval_failed") =>
        /\ pc # "raised"
        /\ ~HasCall("completion")
        /\ pc = "END" =>
              state.final_response =
                  Some([answer |-> Some(GenericResponse(state.validated_question)),
                        sources |-> <<>>,
                        confidence |-> Some(0)])

C6_Witness ==
    /\ pc = "END"
    /\ statusTrace[3] = "retrieval_failed"
    /\ ~IsNone(state.final_response)

\* C7: whenever the Generation stage is entered with empty relevant_chunks it
\* calls no completion service and returns the 'no information' template built
\* from the question, confidence 0.0 and status generation_completed.
C7_EmptyChunksShortCircuit ==
    (pc = "output" /\ state.relevant_chunks = <<>>) =>
        /\ ~HasCall("completion")
        /\ state.generated_response = Some(GenericResponse(state.validated_question))
        /\ state.confidence = Some(0)
        /\ state.status = "generation_completed"

\* retrieval succeeded with zero matches
C7_Witness ==
    /\ pc = "output"
    /\ state.relevant_chunks = <<>>
    /\ statusTrace[3] = "retrieval_completed"

\* C8: if the completion call raises or answers malformed while relevant_chunks
\* is not empty, the Generation stage returns the apology text, confidence 0.0,
\* status generation_failed and the error, and the Output stage runs.
CompletionFailed ==
    /\ calls # <<>>
    /\ LastCall[1] = "completion"
    /\ LastCall[2] \in {"raise", "malformed"}

C8_GenerationFailureAbsorbed ==
    CompletionFailed =>
        /\ state.relevant_chunks # <<>>
        /\ statusTrace[4] = "generation_failed"
        /\ pc = "output" =>
              /\ state.generated_response = Some(FallbackResponse(state.validated_question))
              /\ state.confidence = Some(0)
              /\ state.status = "generation_failed"
              /\ "error" \in DOMAIN state
              /\ LastCall[2] = "raise" => state["error"] = LastCall[3]
              /\ ENABLED output_node

\* the completion call raised after retrieval had found a chunk scored 0.65
C8_Witness ==
    /\ pc = "output"
    /\ CompletionFailed
    /\ LastCall[2] = "raise"
    /\ \E i \in 1..Len(state.relevant_chunks) : state.relevant_chunks[i].score = Some(65)

\* C9: the sources of final_response hold no value twice, also when several
\* chunks share a source.
C9_SourcesUnique ==
    ~IsNone(state.final_response) => NoDuplicates(Val(state.final_response).sources)

\* two chunks share a source and a third value occurs
C9_Witness ==
    /\ pc = "END"
    /\ Len(state.relevant_chunks) >= 2
    /\ state.relevant_chunks[1].source = state.relevant_chunks[2].source
    /\ Len(Val(state.final_response).sources) = 1

\* C10: the Output stage always succeeds: once the Generation stage has
\* returned, the run does not raise, whatever the store answered.
C10_OutputAlwaysSucceeds ==
    Len(statusTrace) >= 4 => pc # "raised"

\* ------------------------------------------------ properties of the calibrator
Calibrated == pc = "idle" /\ ~IsNone(calib) /\ ~IsNone(calib.result)

CalibResult == Val(calib.result)

\* positions of the scores that reach the threshold
RetainedAt == {i \in 1..Len(calib.similarity_scores) :
                  calib.similarity_scores[i] >= calib.score_threshold}

Clamp01(x) == IF x < 0 THEN 0 ELSE IF x > ConfScale THEN ConfScale ELSE x

\* C11: with the default parameters the calibrator returns a value in [0, 1] for
\* every score sequence, negative scores and scores above 1 included.
C11_ConfidenceInUnitInterval ==
    (Calibrated /\ calib.score_threshold = 20) =>
        (CalibResult >= 0 /\ CalibResult <= ConfScale)

\* a sequence with a negative score and a score above 1, calibrated to 1.0
C11_Witness ==
    /\ Calibrated
    /\ calib.score_threshold = 20
    /\ \E i, j \in 1..Len(calib.similarity_scores) :
          calib.similarity_scores[i] < 0 /\ calib.similarity_scores[j] > 100
    /\ CalibResult = ConfScale

\* C12: the calibrator returns exactly 0.0 when the sequence is empty and when
\* every score is strictly below score_threshold, however many scores there are.
C12_ZeroWithoutEvidence ==
    (Calibrated /\ RetainedAt = {}) => CalibResult = 0

\* several scores, all below the threshold, one of them above expected_min
C12_Witness ==
    /\ Calibrated
    /\ RetainedAt = {}
    /\ Len(calib.similarity_scores) >= 2
    /\ \E i \in 1..Len(calib.similarity_scores) : calib.similarity_scores[i] > 20

\* position of the largest score
TopIndex(sc) == CHOOSE i \in 1..Len(sc) : \A j \in 1..Len(sc) : sc[i] >= sc[j]

ReplaceTop(sc, v) == [sc EXCEPT ![TopIndex(sc)] = v]

ConfidenceWithTop(v) ==
    compute_confidence_from_scores(ReplaceTop(calib.similarity_scores, v), 20, 70,
                                   calib.score_threshold)

\* the other scores do not exceed v, so that v is the top score after replacing
StaysTop(v) ==
    \A j \in 1..Len(calib.similarity_scores) :
        j # TopIndex(calib.similarity_scores) => calib.similarity_scores[j] <= v

\* C13 as stated: for every pair a <= b, replacing the largest score by b gives a
\* result not smaller than replacing it by a.
C13_MonotoneInReplacedScore ==
    (Calibrated /\ calib.similarity_scores # <<>>) =>
        \A a, b \in CalibScores : a <= b => ConfidenceWithTop(a) <= ConfidenceWithTop(b)

\* C13 amended: for every pair a <= b that are both at least as large as every
\* other score (the replaced score stays the top score), replacing the largest
\* score by b gives a result not smaller than replacing it by a; the result the
\* calibrator returned is the one for the largest score itself.
C13_MonotoneInTopScore ==
    (Calibrated /\ calib.similarity_scores # <<>>) =>
        /\ CalibResult = ConfidenceWithTop(calib.similarity_scores[TopIndex(calib.similarity_scores)])
        /\ \A a, b \in CalibScores :
              (a <= b /\ StaysTop(a)) => ConfidenceWithTop(a) <= ConfidenceWithTop(b)

\* the top score can move across the threshold while a second score is retained
C13_Witness ==
    /\ Calibrated
    /\ Cardinality(RetainedAt) >= 2
    /\ CalibResult > 0
    /\ CalibResult < ConfScale

\* C14: with at least three scores >= score_threshold the result is
\* clamp01((0.6*s1 + 0.3*s2 + 0.1*s3 - 0.20) / (0.70 - 0.20)) for the three
\* largest retained scores s1 >= s2 >= s3; [0.65, 0.50, 0.30] gives 0.74.
C14_TopThreeFormula ==
    /\ (Calibrated /\ Cardinality(RetainedAt) >= 3) =>
          \A i, j, k \in RetainedAt :
              LET sc == calib.similarity_scores IN
              (/\ i # j /\ j # k /\ i # k
               /\ sc[i] >= sc[j] /\ sc[j] >= sc[k]
               /\ \A m \in RetainedAt \ {i, j, k} : sc[m] <= sc[k])
              => CalibResult = Clamp01(((6 * sc[i] + 3 * sc[j] + sc[k] - 20 * 10) * ConfScale) \div (50 * 10))
    /\ (Calibrated /\ calib.similarity_scores = <<65, 50, 30>> /\ calib.score_threshold = 20) =>
          100 * CalibResult = 74 * ConfScale

C14_Witness ==
    /\ Calibrated
    /\ calib.similarity_scores = <<65, 50, 30>>
    /\ calib.score_threshold = 20

\* C15: with fewer than three retained scores the weighted mean is divided by the
\* sum of the weights used: equal retained scores x (one, two or three of them)
\* give clamp01((x - 0.20) / 0.50), and two retained scores a >= b give
\* clamp01(((0.6*a + 0.3*b)/0.9 - 0.20) / 0.50).
C15_NormalisedByWeightsUsed ==
    Calibrated =>
        LET sc == calib.similarity_scores IN
        /\ \A i \in RetainedAt :
              (Cardinality(RetainedAt) <= 3 /\ \A j \in RetainedAt : sc[j] = sc[i])
              => CalibResult = Clamp01(((sc[i] - 20) * ConfScale) \div 50)
        /\ \A i, j \in RetainedAt :
              (Cardinality(RetainedAt) = 2 /\ i # j /\ sc[i] >= sc[j])
              => CalibResult = Clamp01(((6 * sc[i] + 3 * sc[j] - 20 * 9) * ConfScale) \div (50 * 9))

\* two different retained scores, the result strictly inside (0, 1)
C15_Witness ==
    /\ Calibrated
    /\ Cardinality(RetainedAt) = 2
    /\ \E i, j \in RetainedAt : calib.similarity_scores[i] > calib.similarity_scores[j]
    /\ CalibResult > 0
    /\ CalibResult < ConfScale

\* positions of three largest retained scores (of all of them when there are fewer)
TopThreeAt ==
    CHOOSE T \in SUBSET RetainedAt :
        /\ Cardinality(T) = Min(3, Cardinality(RetainedAt))
        /\ \A i \in T, j \in RetainedAt \ T :
              calib.similarity_scores[i] >= calib.similarity_scores[j]

\* a value that does not enter the three largest retained scores: not greater
\* than the third largest, or not retained when fewer than three are
StaysOutOfTopThree(v) ==
    IF Cardinality(RetainedAt) >= 3
    THEN \A i \in TopThreeAt : v <= calib.similarity_scores[i]
    ELSE v < calib.score_threshold

ConfidenceOf(sc) == compute_confidence_from_scores(sc, 20, 70, calib.score_threshold)

\* C26: only the three largest retained scores influence the confidence:
\* appending a score, or changing a score that is not one of the three largest
\* retained, to a value that stays out of the three largest leaves the result
\* of the calibrator unchanged.
C26_OnlyTopThreeMatter ==
    Calibrated =>
        \A v \in CalibScores :
            StaysOutOfTopThree(v) =>
                /\ ConfidenceOf(Append(calib.similarity_scores, v)) = CalibResult
                /\ \A p \in (1..Len(calib.similarity_scores)) \ TopThreeAt :
                      ConfidenceOf([calib.similarity_scores EXCEPT ![p] = v]) = CalibResult

\* four retained scores, the smallest of them can be raised to the third largest
C26_Witness ==
    /\ Calibrated
    /\ Cardinality(RetainedAt) = 4
    /\ \E p \in RetainedAt \ TopThreeAt, i \in TopThreeAt :
          /\ calib.similarity_scores[p] < calib.similarity_scores[i]
          /\ \A k \in TopThreeAt : calib.similarity_scores[i] <= calib.similarity_scores[k]
    /\ CalibResult > 0
    /\ CalibResult < ConfScale

\* ------------------------------------------------------ calls and the error
CallsTo(service) == {i \in 1..Len(calls) : calls[i][1] = service}

\* C16: each external service is attempted at most once per request: at most one
\* embedding call, one vector-store query and one completion call, and a call
\* that failed is not made again.
C16_SingleAttempt ==
    /\ Cardinality(CallsTo("embedding")) <= 1
    /\ Cardinality(CallsTo("query")) <= 1
    /\ Cardinality(CallsTo("completion")) <= 1
    /\ Len(calls) <= 3

\* a finished run in which the completion call raised
C16_Witness ==
    /\ pc = "END"
    /\ Len(calls) = 3
    /\ calls[3][1] = "completion"
    /\ calls[3][2] = "raise"

\* the calls made by the step from the current state
NewCalls == {i \in 1..Len(calls') : i > Len(calls)}

\* C17: the external calls are ordered and do not overlap: the embedding call
\* starts only after validated_question has been written, the vector-store query
\* only after the embedding call has returned, the completion call only after
\* relevant_chunks and the retrieval status have been written to the state.
C17_CallStep ==
    \A i \in NewCalls :
        /\ calls'[i][1] = "embedding" =>
              /\ ~IsNone(state.validated_question)
              /\ state.status = "input_validated"
              /\ i = 1
        /\ calls'[i][1] = "query" =>
              /\ i = 2
              /\ SubSeq(calls'[1], 1, 3) = <<"embedding", "ok", "">>
        /\ calls'[i][1] = "completion" =>
              /\ state.status \in {"retrieval_completed", "retrieval_failed"}
              /\ Len(statusTrace) = 3
              /\ state.relevant_chunks # <<>>
              /\ i = Len(calls) + 1
              /\ \A j \in 1..Len(calls) : calls[j][1] \in {"embedding", "query"}

C17_CallsOrdered == [][C17_CallStep]_vars

C17_Witness ==
    /\ pc = "END"
    /\ Len(calls) = 3
    /\ calls[1][1] = "embedding"
    /\ calls[2][1] = "query"
    /\ calls[3][1] = "completion"
    /\ calls[3][2] = "ok"

StageFailed ==
    \E i \in 1..Len(statusTrace) : statusTrace[i] \in {"retrieval_failed", "generation_failed"}

\* C20: the error field is present only if a stage failure was caught earlier in
\* the request (status has been retrieval_failed or generation_failed); in a run
\* in which retrieval and generation both complete it is absent in every state.
C20_ErrorOnlyAfterFailure ==
    /\ "error" \in DOMAIN state => StageFailed
    /\ ~StageFailed => "error" \notin DOMAIN state

\* a finished run whose generation failed after a completed retrieval
C20_Witness ==
    /\ pc = "END"
    /\ statusTrace[3] = "retrieval_completed"
    /\ statusTrace[4] = "generation_failed"
    /\ "error" \in DOMAIN state

\* ------------------------------------------- determinism and independence
FirstRun == Val(other)

SamePayload(p1, p2) ==
    IF IsNone(p1) \/ IsNone(p2)
    THEN IsNone(p1) /\ IsNone(p2)
    ELSE /\ Val(p1).answer = Val(p2).answer
         /\ Val(p1).confidence = Val(p2).confidence
         /\ Range(Val(p1).sources) = Range(Val(p2).sources)

IsPrefix(xs, ys) == Len(xs) <= Len(ys) /\ xs = SubSeq(ys, 1, Len(xs))

\* C18: two runs started with the same question that receive identical responses
\* (or failures) from the three services pass through the same statuses and end
\* with the same answer, the same confidence and the same set of sources.
C18_Deterministic ==
    mode = "replay" =>
        /\ IsPrefix(statusTrace, FirstRun.statusTrace)
        /\ IsPrefix(calls, FirstRun.calls)
        /\ Finished =>
              /\ pc = FirstRun.pc
              /\ raised = FirstRun.raised
              /\ statusTrace = FirstRun.statusTrace
              /\ SamePayload(state.final_response, FirstRun.state.final_response)

\* both runs completed with two sources, listed in different orders
C18_Witness ==
    /\ mode = "replay"
    /\ pc = "END"
    /\ Len(Val(state.final_response).sources) = 2
    /\ Val(state.final_response).sources # Val(FirstRun.state.final_response).sources

\* the run alone repeats the interleaved run of the same request
RepeatsFirstRun ==
    mode = "replay" =>
        /\ IsPrefix(statusTrace, FirstRun.statusTrace)
        /\ Finished =>
              /\ pc = FirstRun.pc
              /\ raised = FirstRun.raised
              /\ calls = FirstRun.calls
              /\ statusTrace = FirstRun.statusTrace
              /\ state.validated_question = FirstRun.state.validated_question
              /\ state.relevant_chunks = FirstRun.state.relevant_chunks
              /\ state.generated_response = FirstRun.state.generated_response
              /\ state.confidence = FirstRun.state.confidence
              /\ SamePayload(state.final_response, FirstRun.state.final_response)

\* a step while two requests are served: a stage of the running request, which
\* leaves the suspended request as it was, or a change of turns, which hands
\* each request exactly its own record
StepKeepsRequestsApart ==
    (mode = "concurrent" /\ mode' = "concurrent") =>
        \/ other' = other
        \/ /\ other' = Some(Context)
           /\ Context' = Val(other)

\* C19: requests are independent under concurrency: for every interleaving of
\* the stages of two requests, no stage touches the state of the other request,
\* and each request passes through the statuses and ends with the state and the
\* payload it has when run alone on the same service responses.
C19_IndependentRequests == []RepeatsFirstRun /\ [][StepKeepsRequestsApart]_vars

\* one request has completed on retrieved chunks while the other, which found
\* no chunk, is between its stages
C19_Witness ==
    /\ mode = "concurrent"
    /\ pc = "END"
    /\ state.relevant_chunks # <<>>
    /\ Val(other).pc = "output"
    /\ Val(other).statusTrace[3] = "retrieval_failed"

\* ------------------------------------------------- confidence in the state
InUnitInterval(c) == ~IsNone(c) /\ Val(c) \in 0..ConfScale

\* C21: in every reachable state the confidence field is absent or a number in
\* [0,1], and in every state with status 'completed' the confidence of
\* final_response is a number in [0,1], never absent, whatever the scores.
C21_ConfidenceFieldInRange ==
    /\ IsNone(state.confidence) \/ InUnitInterval(state.confidence)
    /\ state.status = "completed" =>
          /\ ~IsNone(state.final_response)
          /\ InUnitInterval(Val(state.final_response).confidence)

\* completed on a single chunk whose score is above the expected maximum, with
\* the confidence cut down to 1
C21_Witness ==
    /\ state.status = "completed"
    /\ Len(state.relevant_chunks) = 1
    /\ ChunkScore(state.relevant_chunks[1]) > ExpectedMaxSimilarity
    /\ Val(state.final_response).confidence = Some(ConfScale)

\* ------------------------------------------------ generation on the chunks
IndexPermutations(n) == {f \in [1..n -> 1..n] : \A i, j \in 1..n : f[i] = f[j] => i = j}

GenerationSucceeded == Len(statusTrace) >= 4 /\ statusTrace[4] = "generation_completed"

\* C27: when generation succeeds the confidence written to the state is the
\* calibrator's result on the scores of all relevant_chunks with threshold
\* 0.20, expected minimum 0.20 and expected maximum 0.70, whatever the order in
\* which the store returned the chunks.
C27_ConfidenceFromAllScores ==
    GenerationSucceeded =>
        LET chunks == state.relevant_chunks IN
        \A f \in IndexPermutations(Len(chunks)) :
            state.confidence =
                Some(compute_confidence_from_scores(
                        [i \in 1..Len(chunks) |-> Val(chunks[f[i]].score)], 20, 70, 20))

\* three chunks returned in increasing score order, confidence inside (0, 1)
C27_Witness ==
    /\ GenerationSucceeded
    /\ Len(state.relevant_chunks) = 3
    /\ Val(state.relevant_chunks[1].score) < Val(state.relevant_chunks[2].score)
    /\ Val(state.relevant_chunks[2].score) < Val(state.relevant_chunks[3].score)
    /\ Val(state.confidence) > 0
    /\ Val(state.confidence) < ConfScale

\* C28: the context block given to the completion service lists every chunk of
\* relevant_chunks exactly once, numbered from 1, in non-increasing score order,
\* chunks with equal scores in the order the store returned them.
C28_ContextListsChunksByScore ==
    ~IsNone(user_prompt) =>
        LET context == Val(user_prompt).context
            chunks == state.relevant_chunks
        IN /\ chunks # <<>>
           /\ Len(context) = Len(chunks)
           /\ \A i \in 1..Len(context) : context[i].idx = i
           /\ \A i, j \in 1..Len(context) : i < j => context[i].relevance >= context[j].relevance
           /\ \E f \in IndexPermutations(Len(chunks)) :
                 /\ \A i \in 1..Len(context) :
                       /\ context[i].relevance = Val(chunks[f[i]].score)
                       /\ context[i].text = chunks[f[i]].text
                 /\ \A i, j \in 1..Len(context) :
                       (i < j /\ context[i].relevance = context[j].relevance) => f[i] < f[j]

\* two chunks of equal score and different texts returned before a chunk of
\* higher score
C28_Witness ==
    /\ ~IsNone(user_prompt)
    /\ Len(state.relevant_chunks) = 3
    /\ state.relevant_chunks[1].score = state.relevant_chunks[2].score
    /\ state.relevant_chunks[1].text # state.relevant_chunks[2].text
    /\ Val(state.relevant_chunks[3].score) > Val(state.relevant_chunks[1].score)
    /\ Val(user_prompt).context[2].text = state.relevant_chunks[1].text

\* ------------------------------------------------ retrieval on the matches
\* the store answered the query of the run whose responses are kept
StoreAnswered ==
    /\ mode = "record"
    /\ Len(script) >= 2
    /\ script[2][1] = "query"
    /\ script[2][2][1] = "ok"

StoreMatches == script[2][2][2]

RetrievalSucceeded == Len(statusTrace) >= 3 /\ statusTrace[3] = "retrieval_completed"

\* C29: on retrieval success relevant_chunks has one chunk per match returned
\* by the store, in the store's order: the i-th chunk has the id, the score and
\* the text of the i-th match, none is dropped, duplicated or reordered.
C29_ChunksMirrorMatches ==
    (mode = "record" /\ RetrievalSucceeded) =>
        /\ StoreAnswered
        /\ Len(state.relevant_chunks) = Len(StoreMatches)
        /\ \A i \in 1..Len(StoreMatches) :
              /\ state.relevant_chunks[i].chunk_id = StoreMatches[i].id
              /\ state.relevant_chunks[i].score = StoreMatches[i].score
              /\ state.relevant_chunks[i].text =
                    IF "text" \in DOMAIN Val(StoreMatches[i].metadata)
                    THEN Val(StoreMatches[i].metadata)["text"]
                    ELSE StrVal("")

\* two matches returned in increasing score order, the first without a text
C29_Witness ==
    /\ mode = "record"
    /\ RetrievalSucceeded
    /\ Len(StoreMatches) = 2
    /\ Val(StoreMatches[1].score) < Val(StoreMatches[2].score)
    /\ "text" \notin DOMAIN Val(StoreMatches[1].metadata)
    /\ "text" \in DOMAIN Val(StoreMatches[2].metadata)

\* every match has a metadata dictionary and a score
MatchesWellFormed ==
    \A i \in 1..Len(StoreMatches) :
        ~IsNone(StoreMatches[i].metadata) /\ ~IsNone(StoreMatches[i].score)

\* C30: for every match whose metadata lacks the sources or the section entry
\* the chunk built for it has "unknown" in that field, and retrieval still
\* completes with status retrieval_completed.
C30_MissingMetadataDefaults ==
    (StoreAnswered /\ MatchesWellFormed) =>
        /\ RetrievalSucceeded
        /\ \A i \in 1..Len(StoreMatches) :
              /\ "sources" \notin DOMAIN Val(StoreMatches[i].metadata) =>
                    state.relevant_chunks[i].source = StrVal("unknown")
              /\ "section" \notin DOMAIN Val(StoreMatches[i].metadata) =>
                    state.relevant_chunks[i].section = StrVal("unknown")

\* one match without sources and one without section in the same answer
C30_Witness ==
    /\ StoreAnswered
    /\ MatchesWellFormed
    /\ Len(StoreMatches) = 2
    /\ DOMAIN Val(StoreMatches[1].metadata) = {"text", "section"}
    /\ DOMAIN Val(StoreMatches[2].metadata) = {"text", "sources"}
    /\ state.status = "retrieval_completed"

\* ------------------------------------------------------------ the endpoint
Responded == ~IsNone(http) /\ ~IsNone(http.response)

HttpStatus == IF Val(http.response)[1] = "HTTPException" THEN Val(http.response)[2] ELSE 200

PipelineInvoked == state # <<>>

\* C22: every validation failure of the question is answered by /ask with 400
\* and never with 500: a request whose question has trimmed length < 3 gets 400
\* without the pipeline being constructed or invoked, and every question the
\* endpoint accepts is accepted by the Input stage too.
C22_ValidationIsClientError ==
    ~IsNone(http) =>
        /\ Len(TrimmedText(http.question)) < 3 =>
              /\ ~PipelineInvoked
              /\ calls = <<>>
              /\ statusTrace = <<>>
              /\ Responded => HttpStatus = 400
        /\ PipelineInvoked =>
              /\ raised # Some(ValidationMessage)
              /\ pc \notin {"input", "request"} => Len(statusTrace) >= 2 /\ statusTrace[2] = "input_validated"
              /\ state.question = Some(TrimmedText(http.question))

\* a question of blanks around one letter was answered 400
C22_Witness ==
    /\ Responded
    /\ HttpStatus = 400
    /\ Len(http.question) = 3
    /\ Len(TrimmedText(http.question)) = 1

\* C23: only invalid input yields an error response: for every question of
\* trimmed length >= 3 and whatever the three services do, the endpoint returns
\* a RAGResponse and never an HTTP error.
C23_OnlyInvalidInputFails ==
    (Responded /\ Len(TrimmedText(http.question)) >= 3) => Val(http.response)[1] = "RAGResponse"

\* ----------------------------------------------------------- the ingestion
Returned(fn) == ~IsNone(job) /\ job.fn = fn /\ pc = "returned"

\* C24: upload_to_pinecone returns True only when every embedding of the input
\* was upserted to the index, and False when a batch upsert failed or the
\* connection could not be made.
C24_UploadResult ==
    Returned("upload_to_pinecone") =>
        /\ Val(job.result) = TRUE =>
              /\ ~IsNone(job.index)
              /\ job.total_uploaded = Len(job.embeddings)
              /\ Val(job.index) = job.embeddings
        /\ IsNone(job.index) => Val(job.result) = FALSE

\* C25: no two chunks returned by process_json_documents have the same
\* chunk_id, also when several documents share their section.
C25_ChunkIdsUnique ==
    Returned("process_json_documents") =>
        NoDuplicates([k \in 1..Len(Val(job.result)) |-> Val(job.result)[k].chunk_id])

\* ------------------------------------------------------- the final payload
\* C31: in every state with status 'completed' the answer of final_response is
\* generated_response, its confidence is the state's confidence and its sources
\* are exactly the source values occurring in relevant_chunks, whether
\* generation completed or failed.
C31_PayloadFromState ==
    state.status = "completed" =>
        LET payload == Val(state.final_response) IN
        /\ payload.answer = state.generated_response
        /\ payload.confidence = state.confidence
        /\ Range(payload.sources) =
              {state.relevant_chunks[i].source : i \in 1..Len(state.relevant_chunks)}

\* generation failed on retrieved chunks: the payload reports their sources
\* with confidence 0.0
C31_Witness ==
    /\ state.status = "completed"
    /\ statusTrace[4] = "generation_failed"
    /\ Val(state.final_response).sources # <<>>
    /\ Val(state.final_response).confidence = Some(0)

\* --------------------------------------------- failures of the stages' own logic
\* retrieval failed although no service call raised
RetrievalLogicFailed ==
    /\ Len(statusTrace) >= 3
    /\ statusTrace[3] = "retrieval_failed"
    /\ \A i \in 1..Len(calls) : calls[i][1] \in {"embedding", "query"} => calls[i][2] # "raise"

\* generation failed although the completion call did not raise
GenerationLogicFailed ==
    /\ Len(statusTrace) >= 4
    /\ statusTrace[4] = "generation_failed"
    /\ \A i \in 1..Len(calls) : calls[i][1] = "completion" => calls[i][2] # "raise"

\* the failure is absorbed where a service failure is
C32_DegradesAtBoundary ==
    /\ RetrievalLogicFailed =>
          /\ state.relevant_chunks = <<>>
          /\ "error" \in DOMAIN state
    /\ GenerationLogicFailed =>
          /\ state.generated_response = Some(FallbackResponse(state.validated_question))
          /\ state.confidence = Some(0)
          /\ "error" \in DOMAIN state

\* C32: an exception raised by the own logic of the Retrieval stage or of the
\* Generation stage is absorbed like a service failure (empty chunks and
\* retrieval_failed, or the apology with confidence 0.0 and generation_failed),
\* and the pipeline continues to 'completed'.
C32_InternalErrorsAbsorbed ==
    /\ C32_DegradesAtBoundary
    /\ (RetrievalLogicFailed \/ GenerationLogicFailed) =>
          /\ pc # "raised"
          /\ pc = "END" => state.status = "completed"

\* ------------------------------------------------- the pipeline of the job
PipelineReturned == InPipeline /\ pc = "pipeline_returned"

StepOrder == <<"chunking", "embedding", "upload">>

\* C33: run_complete_pipeline runs chunking, embedding and upload in that order
\* and stops at the first step that fails: no chunks, no embeddings, or an
\* upload that returned False make it return False without a later step being
\* called; it returns True only after all three steps ran.
C33_StepsInOrder ==
    InPipeline =>
        /\ IsPrefix(job.steps, StepOrder)
        /\ PipelineReturned =>
              /\ job.chunks = <<>> => (job.steps = <<"chunking">> /\ job.returned = Some(FALSE))
              /\ (job.chunks # <<>> /\ job.chunks_with_embeddings = <<>>) =>
                    (job.steps = <<"chunking", "embedding">> /\ job.returned = Some(FALSE))
              /\ (job.steps = StepOrder /\ job.result = Some(FALSE)) => job.returned = Some(FALSE)
              /\ job.returned = Some(TRUE) => job.steps = StepOrder

\* chunks were made, no embedding could be generated, the upload was not called
C33_Witness ==
    /\ PipelineReturned
    /\ Len(job.chunks) >= 2
    /\ job.steps = <<"chunking", "embedding">>
    /\ job.returned = Some(FALSE)
    /\ IsNone(job.index)

\* C34: when run_complete_pipeline returns True every chunk of the chunking
\* step has been embedded and every embedding has been upserted to the store.
C34_NothingLost ==
    (PipelineReturned /\ job.returned = Some(TRUE)) =>
        /\ Len(job.embeddings) = Len(job.chunks)
        /\ Val(job.index) = job.embeddings

\* ------------------------------------------------- the fields a stage owns
Stages == {"input", "retrieval", "generation", "output"}

ChangedFields ==
    {k \in DOMAIN state \cup DOMAIN state' :
        \/ k \notin DOMAIN state
        \/ k \notin DOMAIN state'
        \/ state[k] # state'[k]}

OwnedFields(stage, new_status) ==
    CASE stage = "input" -> {"validated_question", "status"}
      [] stage = "retrieval" ->
            {"relevant_chunks", "status"}
            \cup (IF new_status = "retrieval_failed" THEN {"error"} ELSE {})
      [] stage = "generation" ->
            {"generated_response", "confidence", "status"}
            \cup (IF new_status = "generation_failed" THEN {"error"} ELSE {})
      [] stage = "output" -> {"final_response", "status"}

StageKeepsFrame ==
    pc \in Stages =>
        /\ ChangedFields \subseteq OwnedFields(pc, state'.status)
        /\ state'.question = state.question
        /\ pc = "generation" => state'.relevant_chunks = state.relevant_chunks

\* C35: every stage changes only the fields it owns: input only
\* validated_question and status; retrieval only relevant_chunks, status and, on
\* failure, error; generation only generated_response, confidence, status and,
\* on failure, error; output only final_response and status. The question is
\* never modified and relevant_chunks keeps the store's order after generation.
C35_StagesOwnFields == [][StageKeepsFrame]_vars

\* generation completed on chunks the store returned in ascending score order
C35_Witness ==
    /\ pc = "output"
    /\ state.status = "generation_completed"
    /\ Len(state.relevant_chunks) = 2
    /\ ChunkScore(state.relevant_chunks[1]) < ChunkScore(state.relevant_chunks[2])
    /\ HasCall("completion")

\* ------------------------------------------------- one failure per request
Passed(tag) == \E i \in 1..Len(statusTrace) : statusTrace[i] = tag

GenerationDone == Passed("generation_completed") \/ Passed("generation_failed")

RetrievedSomething == Passed("retrieval_completed") /\ state.relevant_chunks # <<>>

AllScored(chunks) == \A i \in 1..Len(chunks) : ~IsNone(Get(chunks[i], "score", Some(0)))

\* C36 as stated: no run passes through both 'retrieval_failed' and
\* 'generation_failed'; the completion service is called if and only if
\* retrieval completed with at least one chunk; 'generation_failed' is reached
\* only from 'retrieval_completed' with non-empty relevant_chunks.
C36_CompletionIffChunks ==
    /\ ~(Passed("retrieval_failed") /\ Passed("generation_failed"))
    /\ GenerationDone => (HasCall("completion") <=> RetrievedSomething)
    /\ Passed("generation_failed") => RetrievedSomething

\* C36 amended: no run passes through both 'retrieval_failed' and
\* 'generation_failed'; the completion service is called only if retrieval
\* completed with at least one chunk, and it is called whenever retrieval
\* completed with at least one chunk and every chunk carries a score;
\* 'generation_failed' is reached only from 'retrieval_completed' with
\* non-empty relevant_chunks.
C36_CompletionOnlyWithChunks ==
    /\ ~(Passed("retrieval_failed") /\ Passed("generation_failed"))
    /\ HasCall("completion") => RetrievedSomething
    /\ (GenerationDone /\ RetrievedSomething /\ AllScored(state.relevant_chunks)) =>
          HasCall("completion")
    /\ Passed("generation_failed") => RetrievedSomething

\* generation failed on retrieved chunks before the completion service was called
C36_Witness ==
    /\ Passed("generation_failed")
    /\ RetrievedSomething
    /\ ~AllScored(state.relevant_chunks)
    /\ ~HasCall("completion")

\* ------------------------------------------------- the vector of the query
QueryAfterEmbedding(log) ==
    \A i \in 1..Len(log) :
        log[i][1] = "query" =>
            /\ i > 1
            /\ log[i - 1][1] = "embedding"
            /\ log[i - 1][2] = "ok"
            /\ log[i][4] = log[i - 1][4]

NoQueryAfterFailure(log) ==
    (\E i \in 1..Len(log) : log[i][1] = "embedding" /\ log[i][2] # "ok") =>
        \A i \in 1..Len(log) : log[i][1] # "query"

\* C37: if the embedding call of a request fails, the vector-store query of
\* that request is never issued; every vector-store query is preceded by a
\* successful embedding call of the same request, and the vector passed to the
\* query is the one that call returned.
C37_QueryUsesOwnEmbedding ==
    /\ QueryAfterEmbedding(calls)
    /\ NoQueryAfterFailure(calls)
    /\ ~IsNone(other) =>
          /\ QueryAfterEmbedding(Val(other).calls)
          /\ NoQueryAfterFailure(Val(other).calls)

\* two requests in flight whose embedding calls returned different vectors,
\* both having queried the store
C37_Witness ==
    /\ mode = "concurrent"
    /\ ~IsNone(other)
    /\ Len(calls) >= 2
    /\ calls[2][1] = "query"
    /\ Len(Val(other).calls) >= 2
    /\ Val(other).calls[2][1] = "query"
    /\ calls[2][4] = "v2"
    /\ Val(other).calls[2][4] = "v1"
====
